---- MODULE Spec2Model ----
(***************************************************************************)
(* Model of src/review-agent.ts: the review session loop (runCodeReview),  *)
(* the structural validator (isValidReviewResult), the report renderer     *)
(* (printResults) and the process entry (main).                            *)
(***************************************************************************)
EXTENDS Integers, Sequences, FiniteSets, TLC

VARIABLES
    pc,         \* position of main: "start", "streaming", "closing", "returned", "resolved", "rejected", "done"; of a direct call: "call", "validated", "printed", "threw"
    dir,        \* what process.argv[2] || "." resolves to on disk: "dir", "file", "missing"
    consumed,   \* the events the for-await loop has processed so far, in arrival order
    result,     \* the `result` slot of runCodeReview (line 78), later main's `result`
    out,        \* lines written with console.log, in order
    err,        \* lines written with console.error, in order
    exitCode,   \* -1 while the process runs, then the exit code
    sessions,   \* number of query() sessions opened
    stream,     \* the session's event stream: "none", "open", "ended", "failed"; after a throw in the loop body "closing", then "closed"
    thrown,     \* message of the error that is propagating to main's promise, "" when there is none
    arg,        \* argument of a direct call of a pure function
    ret         \* its return value

vars == <<pc, dir, consumed, result, out, err, exitCode, sessions, stream, thrown, arg, ret>>

----------------------------------------------------------------------------
(* Bounds *)

MaxEvents == 2      \* events a stream delivers before it ends or fails
MaxBlocks == 2      \* content blocks of one assistant event
MaxIssues == 3      \* issues of a result handed to printResults directly

----------------------------------------------------------------------------
(* JavaScript values.  A value is a record of its type tag and its content; *)
(* a field that does not apply to the type keeps a fixed filler.           *)

Prim(t, n, s) == [t |-> t, num |-> n, str |-> s]
PUndefined == Prim("undefined", 0, "")
PNull == Prim("null", 0, "")
PNum(n) == Prim("number", n, "")
PStr(s) == Prim("string", 0, s)

Val(t, n, s, items) == [t |-> t, num |-> n, str |-> s, items |-> items]
Undefined == Val("undefined", 0, "", <<>>)
Null == Val("null", 0, "", <<>>)
Num(n) == Val("number", n, "", <<>>)
Str(s) == Val("string", 0, s, <<>>)
Bool(b) == Val("boolean", IF b THEN 1 ELSE 0, "", <<>>)
Arr(items) == Val("array", 0, "", items)
PlainObj == Val("object", 0, "", <<>>)

\* the typeof operator
typeof(v) ==
    IF v.t \in {"null", "array", "object"} THEN "object" ELSE v.t

\* Array.isArray
IsArray(v) == v.t = "array"

\* ToBoolean, as applied by `&&`, `?:` and `if`
Truthy(v) ==
    CASE v.t \in {"undefined", "null"} -> FALSE
      [] v.t = "number" -> v.num # 0
      [] v.t = "boolean" -> v.num = 1
      [] v.t = "string" -> v.str # ""
      [] OTHER -> TRUE

\* the nullish test of `??`
Nullish(v) == v.t \in {"undefined", "null"}

\* string conversion of a primitive in String(v) and in a template literal
ToStr(v) ==
    CASE v.t = "string" -> v.str
      [] v.t = "number" -> ToString(v.num)
      [] v.t = "boolean" -> (IF v.num = 1 THEN "true" ELSE "false")
      [] v.t = "null" -> "null"
      [] OTHER -> "undefined"

\* a payload: a value together with its three properties the code reads;
\* a property that is not there reads as undefined
Payload(v, issues, summary, overallScore) ==
    [t |-> v.t, num |-> v.num, str |-> v.str, items |-> v.items,
     issues |-> issues, summary |-> summary, overallScore |-> overallScore]
NoProps(v) == Payload(v, Undefined, Undefined, Undefined)
ObjPayload(issues, summary, overallScore) ==
    Payload(PlainObj, issues, summary, overallScore)

\* one element of `issues`: an object with the six fields, or null
Issue(sev, file, line, suggestion) ==
    [t |-> "object", severity |-> sev, category |-> "bug", file |-> file,
     line |-> line, description |-> "d", suggestion |-> suggestion]
NullIssue ==
    [t |-> "null", severity |-> "", category |-> "", file |-> "",
     line |-> PUndefined, description |-> "", suggestion |-> PUndefined]

----------------------------------------------------------------------------
(* isValidReviewResult, lines 63-70 *)

\* variant: the overallScore test of line 68 is left out
isValidReviewResultNoScore(obj) ==
    IF typeof(obj) # "object" \/ obj.t = "null" THEN FALSE
    ELSE IF ~IsArray(obj.issues) THEN FALSE
    ELSE IF typeof(obj.summary) # "string" THEN FALSE
    ELSE TRUE

isValidReviewResult(obj) ==
    IF typeof(obj) # "object" \/ obj.t = "null" THEN FALSE
    ELSE IF ~IsArray(obj.issues) THEN FALSE
    ELSE IF typeof(obj.summary) # "string" THEN FALSE
    ELSE IF typeof(obj.overallScore) # "number" THEN FALSE
    ELSE TRUE

----------------------------------------------------------------------------
(* console output: one record per console.log / console.error call.        *)
(* `text` is the printed text without the glyphs and blank lines; `tag` and *)
(* `n` repeat the severity or subtype and the count the text was built     *)
(* from.                                                                   *)

Line(kind, text, tag, n) == [kind |-> kind, text |-> text, tag |-> tag, n |-> n]

----------------------------------------------------------------------------
(* Tool progress lines, lines 114-126 and getToolSummary, lines 146-154 *)

\* a ?? b
Coalesce(a, b) == IF Nullish(a) THEN b ELSE a

ToolInput(subagent_type, file_path, pattern, path) ==
    [subagent_type |-> subagent_type, file_path |-> file_path,
     pattern |-> pattern, path |-> path]
NoInput == ToolInput(PUndefined, PUndefined, PUndefined, PUndefined)

\* a content block; hasName / hasInput are `"name" in block` / `"input" in block`
Block(hasName, hasInput, name, input) ==
    [hasName |-> hasName, hasInput |-> hasInput, name |-> name, input |-> input]

\* variant: the fallbacks are taken with || instead of ??
getToolSummaryOr(block) ==
    CASE block.name = "Read" ->
            ToStr(IF Truthy(block.input.file_path) THEN block.input.file_path ELSE PStr("file"))
      [] block.name = "Glob" ->
            ToStr(IF Truthy(block.input.pattern) THEN block.input.pattern ELSE PStr("pattern"))
      [] block.name = "Grep" ->
            "\"" \o ToStr(IF Truthy(block.input.pattern) THEN block.input.pattern ELSE PStr(""))
                 \o "\" in "
                 \o ToStr(IF Truthy(block.input.path) THEN block.input.path ELSE PStr("."))
      [] OTHER -> ""

getToolSummary(block) ==
    CASE block.name = "Read" -> ToStr(Coalesce(block.input.file_path, PStr("file")))
      [] block.name = "Glob" -> ToStr(Coalesce(block.input.pattern, PStr("pattern")))
      [] block.name = "Grep" ->
            "\"" \o ToStr(Coalesce(block.input.pattern, PStr(""))) \o "\" in "
                 \o ToStr(Coalesce(block.input.path, PStr(".")))
      [] OTHER -> ""

\* variant: a delegation is also logged as a tool call
BlockLinesTaskAlsoSummary(block) ==
    IF block.hasName /\ block.hasInput
    THEN (IF block.name = "Task"
          THEN << Line("delegate",
                       "Delegating to: "
                         \o ToStr(Coalesce(block.input.subagent_type, PStr("unknown"))),
                       "", 0) >>
          ELSE << >>)
         \o << Line("tool", block.name \o ": " \o getToolSummary(block), "", 0) >>
    ELSE << >>

\* variant: line 116 tests only `"name" in block`
BlockLinesNameOnly(block) ==
    IF block.hasName
    THEN IF block.name = "Task"
         THEN << Line("delegate",
                      "Delegating to: "
                        \o ToStr(Coalesce(block.input.subagent_type, PStr("unknown"))),
                      "", 0) >>
         ELSE << Line("tool", block.name \o ": " \o getToolSummary(block), "", 0) >>
    ELSE << >>

\* the body of the loop over message.message.content for one block
BlockLines(block) ==
    IF block.hasName /\ block.hasInput
    THEN IF block.name = "Task"
         THEN << Line("delegate",
                      "Delegating to: "
                        \o ToStr(Coalesce(block.input.subagent_type, PStr("unknown"))),
                      "", 0) >>
         ELSE << Line("tool", block.name \o ": " \o getToolSummary(block), "", 0) >>
    ELSE << >>

\* variant: the blocks of an event are walked last to first
RECURSIVE ContentLinesReversed(_)
ContentLinesReversed(content) ==
    IF content = << >> THEN << >>
    ELSE ContentLinesReversed(Tail(content)) \o BlockLines(Head(content))

\* for (const block of message.message.content) { ... }
RECURSIVE ContentLines(_)
ContentLines(content) ==
    IF content = << >> THEN << >>
    ELSE BlockLines(Head(content)) \o ContentLines(Tail(content))

----------------------------------------------------------------------------
(* Session events and the loop body of runCodeReview, lines 112-141 *)

\* message.total_cost_usd: a number of dollars, kept as its count of
\* ten-thousandths of a dollar (0.1234 is 1234), or a value of another type
Cost(t, e4, s) == [t |-> t, e4 |-> e4, str |-> s]
CostUndefined == Cost("undefined", 0, "")
CostNull == Cost("null", 0, "")
CostNum(e4) == Cost("number", e4, "")
CostStr(s) == Cost("string", 0, s)

Event(type, content, subtype, structured_output, total_cost_usd) ==
    [type |-> type, content |-> content, subtype |-> subtype,
     structured_output |-> structured_output, total_cost_usd |-> total_cost_usd]

\* the fraction digits of toFixed(4): four digits, zeros in front
Pad4(r) ==
    (IF r < 10 THEN "000" ELSE IF r < 100 THEN "00" ELSE IF r < 1000 THEN "0" ELSE "")
        \o ToString(r)

\* Number.prototype.toFixed(4) on a number of e4 ten-thousandths
toFixed4(e4) ==
    IF e4 < 0
    THEN "-" \o ToString((0 - e4) \div 10000) \o "." \o Pad4((0 - e4) % 10000)
    ELSE ToString(e4 \div 10000) \o "." \o Pad4(e4 % 10000)

\* (message.total_cost_usd ?? 0): only a number has a toFixed method
costOperand(message) == Coalesce(message.total_cost_usd, CostNum(0))
toFixedThrows(message) == costOperand(message).t # "number"

\* the text of line 133, when toFixed returns
successText(message) ==
    "Review complete! Cost: $" \o toFixed4(costOperand(message).e4)

\* line 133 is reached and `.toFixed` of a value that is no number throws
\* a TypeError out of the loop
ResultThrows(message) ==
    /\ message.type = "result"
    /\ message.subtype = "success" /\ Truthy(message.structured_output)
    /\ isValidReviewResult(message.structured_output)
    /\ toFixedThrows(message)

\* if (message.type === "assistant") { ... }
AssistantLines(message) ==
    IF message.type = "assistant" THEN ContentLines(message.content) ELSE << >>

\* variant: the failure line of line 138 does not cite message.subtype
ResultLinesNoSubtype(message) ==
    IF message.type = "result"
    THEN IF message.subtype = "success" /\ Truthy(message.structured_output)
         THEN IF isValidReviewResult(message.structured_output)
              THEN (IF toFixedThrows(message) THEN << >>
                    ELSE << Line("success", successText(message), "", 0) >>)
              ELSE << Line("failure", "Review failed: Invalid response structure", "", 0) >>
         ELSE << Line("failure", "Review failed", "", 0) >>
    ELSE << >>

\* the console.log calls of `if (message.type === "result") { ... }`; none
\* when line 133 throws before it prints
ResultLines(message) ==
    IF message.type = "result"
    THEN IF message.subtype = "success" /\ Truthy(message.structured_output)
         THEN IF isValidReviewResult(message.structured_output)
              THEN (IF toFixedThrows(message) THEN << >>
                    ELSE << Line("success", successText(message), "", 0) >>)
              ELSE << Line("failure", "Review failed: Invalid response structure", "", 0) >>
         ELSE << Line("failure", "Review failed: " \o message.subtype, message.subtype, 0) >>
    ELSE << >>

\* variant: the subtype test of line 130 is left out
ResultAfterAnyStatus(message, slot) ==
    IF message.type = "result"
         /\ Truthy(message.structured_output)
         /\ isValidReviewResult(message.structured_output)
    THEN message.structured_output
    ELSE slot

\* variant: the isValidReviewResult test of line 131 is left out
ResultAfterNoValidation(message, slot) ==
    IF message.type = "result"
         /\ message.subtype = "success" /\ Truthy(message.structured_output)
    THEN message.structured_output
    ELSE slot

\* the value of `result` after the loop body ran on `message`
ResultAfter(message, slot) ==
    IF message.type = "result"
         /\ message.subtype = "success" /\ Truthy(message.structured_output)
         /\ isValidReviewResult(message.structured_output)
    THEN message.structured_output
    ELSE slot

----------------------------------------------------------------------------
(* printResults, lines 156-191 *)

Severities == << "critical", "high", "medium", "low" >>

\* result.issues.filter(i => i.severity === severity)
filterBySeverity(issues, severity) ==
    SelectSeq(issues, LAMBDA i : i.severity = severity)

\* the byCategory object, lines 165-170; Object.entries walks its keys in
\* the order they were written: critical, high, medium, low
byCategory(res) ==
    [k \in 1..Len(Severities) |-> filterBySeverity(res.issues.items, Severities[k])]

toUpperCase(s) ==
    CASE s = "critical" -> "CRITICAL"
      [] s = "high" -> "HIGH"
      [] s = "medium" -> "MEDIUM"
      [] s = "low" -> "LOW"
      [] OTHER -> s

\* the three or four console.log calls for one issue, lines 183-188
IssueLines(issue) ==
    LET location == IF Truthy(issue.line)
                    THEN issue.file \o ":" \o ToStr(issue.line)
                    ELSE issue.file
    IN  << Line("issue", "[" \o issue.category \o "] " \o location, issue.severity, 0),
           Line("description", issue.description, issue.severity, 0) >>
        \o (IF Truthy(issue.suggestion)
            THEN << Line("suggestion", ToStr(issue.suggestion), issue.severity, 0) >>
            ELSE << >>)

\* for (const issue of issues) { ... }
RECURSIVE IssuesLines(_)
IssuesLines(issues) ==
    IF issues = << >> THEN << >>
    ELSE IssueLines(Head(issues)) \o IssuesLines(Tail(issues))

\* variant: the `continue` of line 173 is left out
BucketLinesNoSkip(severity, issues) ==
    << Line("bucket", toUpperCase(severity) \o " (" \o ToString(Len(issues)) \o ")",
            severity, Len(issues)),
       Line("rule", "------------------------------", severity, 0) >>
    \o IssuesLines(issues)

\* one turn of the loop over Object.entries(byCategory), lines 173-189
BucketLines(severity, issues) ==
    IF Len(issues) = 0 THEN << >>
    ELSE << Line("bucket", toUpperCase(severity) \o " (" \o ToString(Len(issues)) \o ")",
                 severity, Len(issues)),
            Line("rule", "------------------------------", severity, 0) >>
         \o IssuesLines(issues)

\* for (const [severity, issues] of Object.entries(byCategory)) { ... }
RECURSIVE BucketsLines(_, _)
BucketsLines(buckets, k) ==
    IF k > Len(buckets) THEN << >>
    ELSE BucketLines(Severities[k], buckets[k]) \o BucketsLines(buckets, k + 1)

\* `i.severity` of line 166 throws a TypeError when an element is null
printResultsThrows(res) ==
    \E k \in 1..Len(res.issues.items) : res.issues.items[k].t = "null"

\* the lines printResults prints before it returns or throws
printResults(res) ==
    << Line("heading", "==================================================", "", 0),
       Line("heading", "REVIEW RESULTS", "", 0),
       Line("heading", "==================================================", "", 0),
       Line("score", "Score: " \o ToStr(res.overallScore) \o "/100", "", 0),
       Line("count", "Issues Found: " \o ToString(Len(res.issues.items)), "",
            Len(res.issues.items)),
       Line("summary", "Summary: " \o ToStr(res.summary), "", 0) >>
    \o (IF printResultsThrows(res) THEN << >> ELSE BucketsLines(byCategory(res), 1))

----------------------------------------------------------------------------
(* validateDirectory, lines 52-61 *)

existsSync(d) == d # "missing"
isDirectory(d) == d = "dir"

\* variant: the isDirectory test of line 57 is left out
validateDirectoryExistsOnly(d) ==
    IF ~existsSync(d) THEN FALSE ELSE TRUE

\* TRUE when validateDirectory returns, FALSE when it throws
validateDirectory(d) ==
    IF ~existsSync(d) THEN FALSE
    ELSE IF ~isDirectory(d) THEN FALSE
    ELSE TRUE

validateDirectoryMessage(d) ==
    IF ~existsSync(d) THEN "Directory does not exist" ELSE "Path is not a directory"

----------------------------------------------------------------------------
(* Inputs *)

BoundedSeq(S, n) == UNION { [1..k -> S] : k \in 0..n }

\* content blocks an assistant event can carry: a text block, a Read call
\* and a delegation
TextBlock == Block(FALSE, FALSE, "", NoInput)
ReadBlock == Block(TRUE, TRUE, "Read",
                   ToolInput(PUndefined, PStr("x.ts"), PUndefined, PUndefined))
TaskBlock == Block(TRUE, TRUE, "Task",
                   ToolInput(PStr("security-scanner"), PUndefined, PUndefined, PUndefined))
Blocks == { TextBlock, ReadBlock, TaskBlock }

\* structured_output values a result event can carry
ValidA == ObjPayload(Arr(<< Issue("critical", "auth.ts", PUndefined, PUndefined) >>),
                     Str("1 issue found"), Num(60))
ValidB == ObjPayload(Arr(<< >>), Str("clean"), Num(100))
ValidNull == ObjPayload(Arr(<< NullIssue >>), Str("s"), Num(1))
InvalidObj == ObjPayload(Str("x"), Str("s"), Num(1))
StreamPayloads ==
    { NoProps(Undefined), NoProps(Num(0)), NoProps(Str("oops")),
      ValidA, ValidB, ValidNull, InvalidObj }

Subtypes == { "success", "error_max_turns" }

\* total_cost_usd values a result event can carry besides none: null, a
\* number of dollars (0.1234) and a string
Costs == { CostNull, CostNum(1234), CostStr("1.5") }

Events ==
    { Event("assistant", c, "", NoProps(Undefined), CostUndefined) : c \in BoundedSeq(Blocks, MaxBlocks) }
    \cup { Event("result", << >>, st, p, CostUndefined) :
             st \in Subtypes, p \in StreamPayloads }
    \cup { Event("result", << >>, "success", ValidA, c) : c \in Costs }
    \cup { Event("result", << >>, "success", InvalidObj, CostStr("1.5")),
           Event("result", << >>, "error_max_turns", NoProps(Undefined), CostStr("1.5")) }
    \cup { Event("system", << >>, "init", NoProps(Undefined), CostUndefined) }

NoResult == NoProps(Null)     \* let result: ReviewResult | null = null

----------------------------------------------------------------------------
(* The process: main, lines 194-215, around runCodeReview, lines 72-144 *)

Init ==
    /\ pc = "start"
    /\ dir \in { "dir", "file", "missing" }
    /\ consumed = << >>
    /\ result = NoResult
    /\ out = << >>
    /\ err = << >>
    /\ exitCode = -1
    /\ sessions = 0
    /\ stream = "none"
    /\ thrown = ""
    /\ arg = NoResult
    /\ ret = << >>

\* main, lines 198-203: validateDirectory throws, the catch prints and exits 1
MainDirectoryError ==
    /\ pc = "start"
    /\ ~validateDirectory(dir)
    /\ err' = Append(err, "Error: " \o validateDirectoryMessage(dir))
    /\ exitCode' = 1
    /\ pc' = "done"
    /\ UNCHANGED <<dir, consumed, result, out, sessions, stream, thrown, arg, ret>>

\* main, lines 199 and 205, into runCodeReview, lines 73-80: the banner is
\* printed, the slot is set to null and query() opens the session
MainStart ==
    /\ pc = "start"
    /\ validateDirectory(dir)
    /\ out' = out \o << Line("banner", "==================================================", "", 0),
                        Line("banner", "Code Review Agent", "", 0),
                        Line("banner", "Directory: " \o dir, "", 0),
                        Line("banner", "==================================================", "", 0) >>
    /\ result' = NoResult
    /\ sessions' = sessions + 1
    /\ stream' = "open"
    /\ pc' = "streaming"
    /\ UNCHANGED <<dir, consumed, err, exitCode, thrown, arg, ret>>

\* one turn of the for-await loop, lines 112-141, on the next event; when
\* line 133 throws, the slot is already written (line 132) and the loop
\* asks the stream to close (iterator.return()) and awaits that, holding
\* the error
OnMessage(message) ==
    /\ pc = "streaming"
    /\ Len(consumed) < MaxEvents
    /\ consumed' = Append(consumed, message)
    /\ out' = out \o AssistantLines(message) \o ResultLines(message)
    /\ result' = ResultAfter(message, result)
    /\ IF ResultThrows(message)
       THEN /\ stream' = "closing"
            /\ thrown' = "(message.total_cost_usd ?? 0).toFixed is not a function"
            /\ pc' = "closing"
       ELSE UNCHANGED <<pc, stream, thrown>>
    /\ UNCHANGED <<dir, err, exitCode, sessions, arg, ret>>

\* the close of the stream settles: the loop rethrows the error of line
\* 133, runCodeReview rejects and with it main's promise (line 205)
ReturnSettled ==
    /\ pc = "closing"
    /\ stream' = "closed"
    /\ pc' = "rejected"
    /\ UNCHANGED <<dir, consumed, result, out, err, exitCode, sessions, thrown, arg, ret>>

\* the close of the stream never settles and nothing else is pending: the
\* handler of lines 212-215 never runs and the process ends with code 0
ReturnPending ==
    /\ pc = "closing"
    /\ exitCode' = 0
    /\ pc' = "done"
    /\ UNCHANGED <<dir, consumed, result, out, err, sessions, stream, thrown, arg, ret>>

\* the loop awaits a next() that never settles and nothing else is pending:
\* the process ends with code 0, the stream still open, nothing printed
NextPending ==
    /\ pc = "streaming"
    /\ exitCode' = 0
    /\ pc' = "done"
    /\ UNCHANGED <<dir, consumed, result, out, err, sessions, stream, thrown, arg, ret>>

\* the stream ends: the loop is left and runCodeReview returns, line 143
StreamEnd ==
    /\ pc = "streaming"
    /\ stream' = "ended"
    /\ pc' = "returned"
    /\ UNCHANGED <<dir, consumed, result, out, err, exitCode, sessions, thrown, arg, ret>>

\* query() or the stream throws: runCodeReview rejects and with it main's
\* promise (line 205)
StreamError ==
    /\ pc = "streaming"
    /\ stream' = "failed"
    /\ thrown' = "session"
    /\ pc' = "rejected"
    /\ UNCHANGED <<dir, consumed, result, out, err, exitCode, sessions, arg, ret>>

\* variant: the `if (result)` of line 207 is left out
MainFinishAlwaysPrints ==
    /\ pc = "returned"
    /\ out' = out \o printResults(result)
    /\ pc' = "resolved"
    /\ UNCHANGED <<dir, consumed, result, err, exitCode, sessions, stream, thrown, arg, ret>>

\* variant: main rejects when the session recorded no result
MainFinishNoResultFails ==
    /\ pc = "returned"
    /\ out' = out \o (IF Truthy(result) THEN printResults(result) ELSE << >>)
    /\ IF Truthy(result) /\ ~printResultsThrows(result)
       THEN /\ thrown' = thrown
            /\ pc' = "resolved"
       ELSE /\ thrown' = "no result"
            /\ pc' = "rejected"
    /\ UNCHANGED <<dir, consumed, result, err, exitCode, sessions, stream, arg, ret>>

\* main's continuation after the await of line 205, lines 207-210: the
\* report is printed when `result` is truthy and main's promise resolves;
\* when `i.severity` of line 166 throws, the lines before it are printed
\* and main's promise rejects.  The process is still running.
MainFinish ==
    /\ pc = "returned"
    /\ out' = out \o (IF Truthy(result) THEN printResults(result) ELSE << >>)
    /\ IF Truthy(result) /\ printResultsThrows(result)
       THEN /\ thrown' = "Cannot read properties of null (reading 'severity')"
            /\ pc' = "rejected"
       ELSE /\ thrown' = thrown
            /\ pc' = "resolved"
    /\ UNCHANGED <<dir, consumed, result, err, exitCode, sessions, stream, arg, ret>>

\* variant: the handler of lines 212-215 prints and does not exit with 1
MainCatchExitZero ==
    /\ pc = "rejected"
    /\ err' = Append(err, "Error: " \o thrown)
    /\ exitCode' = 0
    /\ pc' = "done"
    /\ UNCHANGED <<dir, consumed, result, out, sessions, stream, thrown, arg, ret>>

\* the handler of lines 212-215, a promise job of its own after main's
\* promise has rejected: it prints the error and exits 1
MainCatch ==
    /\ pc = "rejected"
    /\ err' = Append(err, "Error: " \o thrown)
    /\ exitCode' = 1
    /\ pc' = "done"
    /\ UNCHANGED <<dir, consumed, result, out, sessions, stream, thrown, arg, ret>>

\* main's promise has resolved and no path of lines 205-210 calls
\* process.exit: the process ends with code 0 once the event loop is empty.
\* As long as the ended stream keeps a handle this step is not taken and
\* the process stays alive with the report printed.
LoopEmpty ==
    /\ pc = "resolved"
    /\ exitCode' = 0
    /\ pc' = "done"
    /\ UNCHANGED <<dir, consumed, result, out, err, sessions, stream, thrown, arg, ret>>

Next ==
    \/ MainDirectoryError
    \/ MainStart
    \/ \E message \in Events : OnMessage(message)
    \/ ReturnSettled
    \/ ReturnPending
    \/ NextPending
    \/ StreamEnd
    \/ StreamError
    \/ MainFinish
    \/ MainCatch
    \/ LoopEmpty

Spec == Init /\ [][Next]_vars

----------------------------------------------------------------------------
(* The process on a finite stream.  The stream is finite: once open it     *)
(* ends unless it fails or the process is over before (weak fairness of    *)
(* StreamEnd); the steps of main are continuations the event loop runs     *)
(* once they are ready.  Whether and which events arrive and whether the   *)
(* stream fails is left open, and so is the close the loop asks for after  *)
(* a throw in its body: iterator.return() may settle, may stay pending     *)
(* with nothing else to run, or may stay pending while the stream keeps    *)
(* the process alive, and then the run stays at "closing" for ever.  The   *)
(* handler of lines 212-215 is a promise job and runs once main's promise  *)
(* has rejected.  The end of the process after main's promise has resolved *)
(* is left open too: no line calls process.exit on that path, so the       *)
(* process ends only when the ended stream holds no handle any more.       *)

LiveEvents ==
    { Event("assistant", << ReadBlock, TaskBlock >>, "", NoProps(Undefined), CostUndefined),
      Event("assistant", << TextBlock >>, "", NoProps(Undefined), CostUndefined),
      Event("system", << >>, "init", NoProps(Undefined), CostUndefined),
      Event("result", << >>, "success", ValidA, CostNum(1234)),
      Event("result", << >>, "success", ValidA, CostStr("1.5")),
      Event("result", << >>, "success", ValidNull, CostUndefined),
      Event("result", << >>, "success", InvalidObj, CostUndefined),
      Event("result", << >>, "error_max_turns", NoProps(Undefined), CostUndefined) }

NextLive ==
    \/ MainDirectoryError
    \/ MainStart
    \/ \E message \in LiveEvents : OnMessage(message)
    \/ ReturnSettled
    \/ ReturnPending
    \/ NextPending
    \/ StreamEnd
    \/ StreamError
    \/ MainFinish
    \/ MainCatch
    \/ LoopEmpty

SpecLive ==
    /\ Init
    /\ [][NextLive]_vars
    /\ WF_vars(MainDirectoryError)
    /\ WF_vars(MainStart)
    /\ WF_vars(StreamEnd)
    /\ WF_vars(MainFinish)
    /\ WF_vars(MainCatch)

----------------------------------------------------------------------------
(* Direct calls of isValidReviewResult and printResults on one payload *)

Sevs == { "critical", "high", "medium", "low", "info" }

\* elements of `issues`: every severity with and without a line, null, and
\* three with a line of 0, a suggestion and an empty suggestion
Issues ==
    { Issue(s, "a.ts", l, PUndefined) : s \in Sevs, l \in { PUndefined, PNum(42) } }
    \cup { NullIssue,
           Issue("high", "b.ts", PNum(0), PUndefined),
           Issue("medium", "b.ts", PNum(7), PStr("fix")),
           Issue("low", "b.ts", PUndefined, PStr("")) }

IssuesValues ==
    { Undefined, Null, Str("x"), PlainObj } \cup { Arr(<< >>) }
SummaryValues == { Undefined, Null, Str("s"), Str(""), Num(1) }
ScoreValues == { Undefined, Null, Num(0), Num(60), Str("1") }

CallInputs ==
    { NoProps(v) : v \in { Undefined, Null, Num(0), Num(1), Str(""), Str("s"),
                           Bool(FALSE), Bool(TRUE), Arr(<< >>), PlainObj } }
    \cup { ObjPayload(i, s, o) : i \in IssuesValues, s \in SummaryValues, o \in ScoreValues }
    \cup { ObjPayload(Arr(is), Str("s"), o) :
             is \in BoundedSeq(Issues, MaxIssues), o \in { Num(60), Str("1") } }

InitCalls ==
    /\ pc = "call"
    /\ arg \in CallInputs
    /\ dir = "dir"
    /\ consumed = << >>
    /\ result = NoResult
    /\ out = << >>
    /\ err = << >>
    /\ exitCode = -1
    /\ sessions = 0
    /\ stream = "none"
    /\ thrown = ""
    /\ ret = << >>

\* isValidReviewResult(arg)
CallIsValid ==
    /\ pc = "call"
    /\ ret' = << isValidReviewResult(arg) >>
    /\ pc' = "validated"
    /\ UNCHANGED <<dir, consumed, result, out, err, exitCode, sessions, stream, thrown, arg>>

\* printResults(arg) on a payload the validator accepted
CallPrintResults ==
    /\ pc = "validated"
    /\ ret = << TRUE >>
    /\ out' = printResults(arg)
    /\ pc' = IF printResultsThrows(arg) THEN "threw" ELSE "printed"
    /\ UNCHANGED <<dir, consumed, result, err, exitCode, sessions, stream, thrown, arg, ret>>

NextCalls ==
    \/ CallIsValid
    \/ CallPrintResults

SpecCalls == InitCalls /\ [][NextCalls]_vars

----------------------------------------------------------------------------
(* The loop of runCodeReview on tool calls of every kind *)

\* tool_use blocks: each tool with its own field absent, null, set, empty
\* or a number; a tool the summary does not know; a lower-case "task"
ToolBlocks ==
    { Block(TRUE, TRUE, "Read", ToolInput(PUndefined, f, PUndefined, PUndefined)) :
        f \in { PUndefined, PNull, PStr("x.ts"), PStr(""), PNum(7) } }
    \cup { Block(TRUE, TRUE, "Glob", ToolInput(PUndefined, PUndefined, p, PUndefined)) :
        p \in { PUndefined, PNull, PStr("*.ts"), PStr("") } }
    \cup { Block(TRUE, TRUE, "Grep", ToolInput(PUndefined, PUndefined, p, d)) :
        p \in { PUndefined, PStr("TODO"), PStr("") },
        d \in { PUndefined, PNull, PStr("src") } }
    \cup { Block(TRUE, TRUE, "Task", ToolInput(s, PUndefined, PUndefined, PUndefined)) :
        s \in { PUndefined, PNull, PStr("security-scanner"), PStr("") } }
    \cup { Block(TRUE, TRUE, "Bash", NoInput),
           Block(TRUE, TRUE, "Bash", ToolInput(PStr("a"), PStr("b"), PStr("c"), PStr("d"))),
           Block(TRUE, TRUE, "Read", ToolInput(PStr("a"), PUndefined, PStr("c"), PStr("d"))),
           Block(TRUE, TRUE, "task", ToolInput(PStr("security-scanner"), PUndefined,
                                               PUndefined, PUndefined)) }

\* content blocks that are no tool call: neither key, only `name`, only `input`
OtherBlocks ==
    { TextBlock,
      Block(TRUE, FALSE, "Read", NoInput),
      Block(TRUE, FALSE, "Task", NoInput),
      Block(FALSE, TRUE, "",
            ToolInput(PStr("security-scanner"), PStr("x.ts"), PUndefined, PUndefined)) }

ToolEvents ==
    { Event("assistant", << b >>, "", NoProps(Undefined), CostUndefined) : b \in ToolBlocks \cup OtherBlocks }
    \cup { Event("assistant", << TextBlock, TaskBlock >>, "", NoProps(Undefined), CostUndefined),
           Event("system", << >>, "init", NoProps(Undefined), CostUndefined),
           Event("user", << >>, "", NoProps(Undefined), CostUndefined),
           Event("result", << >>, "error_max_turns", NoProps(Undefined), CostUndefined) }
    \cup { Event("result", << >>, "success", ValidA, c) :
             c \in { CostUndefined, CostNull, CostNum(0), CostNum(5), CostNum(1234),
                     CostNum(25000), CostNum(12345678), CostStr("1.5") } }

InitTools ==
    /\ Init
    /\ dir = "dir"

NextTools ==
    \/ MainStart
    \/ \E message \in ToolEvents : OnMessage(message)

SpecTools == InitTools /\ [][NextTools]_vars

----------------------------------------------------------------------------
(* Vocabulary of the properties *)

Last(s) == s[Len(s)]

IsTerminal(m) == m.type = "result"

\* a structured payload is there at all, whatever its value
Present(p) == p.t # "undefined"

\* the shape a valid review result is said to have
HasReviewShape(p) ==
    /\ p.t = "object"
    /\ p.issues.t = "array"
    /\ p.summary.t = "string"
    /\ p.overallScore.t = "number"

\* terminal event with success status and a payload that is there and valid
IsSuccessTerminal(m) ==
    IsTerminal(m) /\ m.subtype = "success"
        /\ Present(m.structured_output) /\ HasReviewShape(m.structured_output)

\* terminal event with success status and a payload that is there and not valid
IsInvalidTerminal(m) ==
    IsTerminal(m) /\ m.subtype = "success"
        /\ Present(m.structured_output) /\ ~HasReviewShape(m.structured_output)

\* terminal event with a non-success status, or success and no payload
IsFailedTerminal(m) ==
    IsTerminal(m) /\ (m.subtype # "success" \/ ~Present(m.structured_output))

Terminals(events) == SelectSeq(events, IsTerminal)

ReportKinds == { "heading", "score", "count", "summary", "bucket", "rule", "issue",
                 "description", "suggestion" }
ProgressKinds == { "tool", "delegate" }
IsReportLine(l) == l.kind \in ReportKinds
ReportLines(lines) == SelectSeq(lines, IsReportLine)
\* a line of the report has been printed
ReportStarted == ReportLines(out) # << >>
\* the report has been rendered: printResults ran to its end
Rendered == ReportStarted /\ ~printResultsThrows(result)
ProgressLines(lines) == SelectSeq(lines, LAMBDA l : l.kind \in ProgressKinds)

InvalidStructureLine == Line("failure", "Review failed: Invalid response structure", "", 0)

----------------------------------------------------------------------------
(* C1: the recorded-result slot *)

\* C1 as stated: over any event sequence the slot is written at most once:
\* once it holds a result, no later step changes it.
C1_WrittenOnceNeverChanged ==
    [][result # NoResult => result' = result]_vars

\* C1, amended: the slot changes only in a step that consumes a terminal
\* event with status success, which sets it to that event's payload; and
\* while the consumed events hold at most one terminal event, a slot that
\* holds a result never changes (it is written at most once).
C1_SlotWrittenOnlyOnSuccess ==
    [][ /\ result' # result =>
              /\ consumed' # consumed
              /\ Last(consumed').type = "result"
              /\ Last(consumed').subtype = "success"
              /\ result' = Last(consumed').structured_output
              /\ HasReviewShape(result')
        /\ (result # NoResult /\ Len(Terminals(consumed')) <= 1) => result' = result
      ]_vars

\* a result was recorded by the first event and a later tool event left it alone
C1_Witness ==
    /\ Len(consumed) = 2
    /\ IsSuccessTerminal(consumed[1])
    /\ consumed[2].type = "assistant"
    /\ consumed[2].content # << >>
    /\ result = consumed[1].structured_output

----------------------------------------------------------------------------
(* C2: success status with a payload that fails validation *)

\* C2: every terminal event with status success whose payload is present
\* but fails validation emits the "Invalid response structure" failure line
\* and records no result; a run whose terminal events are all of this kind
\* and whose stream ends renders no report and exits 0.
C2_InvalidPayloadReported ==
    /\ (pc = "streaming" /\ consumed # << >> /\ IsInvalidTerminal(Last(consumed))) =>
          /\ out # << >>
          /\ Last(out) = InvalidStructureLine
          /\ result # Last(consumed).structured_output
    /\ (pc = "done" /\ stream = "ended" /\ Terminals(consumed) # << >>
          /\ \A k \in 1..Len(consumed) :
                IsTerminal(consumed[k]) => IsInvalidTerminal(consumed[k])) =>
          /\ ~ReportStarted
          /\ result = NoResult
          /\ exitCode = 0

----------------------------------------------------------------------------
(* C3: non-success status, or success without a payload *)

\* C3 as stated: such a terminal event emits a failure line citing the
\* status subtype, and a session whose only terminal event is such an event
\* ends with no recorded result, no report and exit code 0.
C3_FailedTerminalSessionExitsZero ==
    /\ (pc = "streaming" /\ consumed # << >> /\ IsFailedTerminal(Last(consumed))) =>
          Last(out) = Line("failure", "Review failed: " \o Last(consumed).subtype,
                           Last(consumed).subtype, 0)
    /\ (pc = "done" /\ sessions = 1 /\ Len(Terminals(consumed)) = 1
          /\ IsFailedTerminal(Terminals(consumed)[1])) =>
          /\ result = NoResult
          /\ ~ReportStarted
          /\ exitCode = 0

\* C3, amended: such a terminal event appends exactly one failure line
\* citing the status subtype and leaves the slot as it was; when the stream
\* then ends without an error and every terminal event of the session was
\* such an event, the run ends with no recorded result, no report line and
\* exit code 0: main's last step prints nothing and resolves, and the step
\* after it is the end of the process with code 0.
C3_FailedTerminalReported ==
    [][ /\ (consumed' # consumed /\ IsFailedTerminal(Last(consumed'))) =>
              /\ out' = Append(out, Line("failure",
                                        "Review failed: " \o Last(consumed').subtype,
                                        Last(consumed').subtype, 0))
              /\ result' = result
        /\ (pc \in { "returned", "resolved" } /\ pc' # pc /\ Terminals(consumed) # << >>
              /\ \A k \in 1..Len(consumed) :
                    IsTerminal(consumed[k]) => IsFailedTerminal(consumed[k])) =>
              /\ result' = NoResult
              /\ out' = out
              /\ err' = << >>
              /\ ~ReportStarted'
              /\ pc' = (IF pc = "returned" THEN "resolved" ELSE "done")
              /\ exitCode' = (IF pc = "returned" THEN -1 ELSE 0)
      ]_vars

\* the stream delivered one error_max_turns event and ended; the run is over
C3_Witness ==
    /\ pc = "done"
    /\ stream = "ended"
    /\ exitCode = 0
    /\ Len(Terminals(consumed)) = 1
    /\ Terminals(consumed)[1].subtype = "error_max_turns"
    /\ Last(out).kind = "failure"
    /\ Last(out).tag = "error_max_turns"

----------------------------------------------------------------------------
(* C4: the validator *)

\* C4: isValidReviewResult(P) is true exactly when P is a non-null object
\* whose issues is an array, whose summary is a string and whose
\* overallScore is a number; what the issues hold plays no part.
C4_ValidatorAcceptsExactlyTheShape ==
    pc \in { "validated", "printed", "threw" } => (ret[1] <=> HasReviewShape(arg))

\* the validator accepted an object with an empty issues array
C4_Witness ==
    /\ pc = "validated"
    /\ ret = << TRUE >>
    /\ arg.issues = Arr(<< >>)

----------------------------------------------------------------------------
(* C5: the severity buckets of printResults *)

Count(seq, x) == Cardinality({ k \in 1..Len(seq) : seq[k] = x })

IsPermutation(a, b) ==
    /\ Len(a) = Len(b)
    /\ \A k \in 1..Len(b) : Count(a, b[k]) = Count(b, b[k])

\* C5: for any validated result handed to printResults, the critical, high,
\* medium and low buckets, concatenated, are a permutation of `issues`.
C5_BucketsPartitionIssues ==
    pc = "printed" =>
        LET b == byCategory(arg)
        IN  IsPermutation(b[1] \o b[2] \o b[3] \o b[4], arg.issues.items)

----------------------------------------------------------------------------
(* C6: the order of the rendered buckets *)

Rank(severity) ==
    CASE severity = "critical" -> 1
      [] severity = "high" -> 2
      [] severity = "medium" -> 3
      [] severity = "low" -> 4
      [] OTHER -> 5

BucketHeaders(lines) == SelectSeq(lines, LAMBDA l : l.kind = "bucket")

\* C6: bucket headers appear in the order critical, high, medium, low; a
\* bucket has a header exactly when an issue has its severity; and each
\* issue entry follows the header of its own bucket with no other header in
\* between, one entry per issue of that severity.
C6_BucketHeadersInFixedOrder ==
    pc = "printed" =>
        LET h == BucketHeaders(out)
            issues == arg.issues.items
        IN  /\ \A i, j \in 1..Len(h) : i < j => Rank(h[i].tag) < Rank(h[j].tag)
            /\ \A s \in { "critical", "high", "medium", "low" } :
                  /\ (\E k \in 1..Len(h) : h[k].tag = s)
                        <=> (\E k \in 1..Len(issues) : issues[k].severity = s)
                  /\ Cardinality({ k \in 1..Len(out) :
                                     out[k].kind = "issue" /\ out[k].tag = s })
                        = Cardinality({ k \in 1..Len(issues) : issues[k].severity = s })
            /\ \A k \in 1..Len(out) :
                  out[k].kind = "issue" =>
                      \E i \in 1..(k - 1) :
                          /\ out[i].kind = "bucket"
                          /\ out[i].tag = out[k].tag
                          /\ \A m \in (i + 1)..k : out[m].kind # "bucket"

\* a low issue came before a critical one and both buckets were rendered
C6_Witness ==
    /\ pc = "printed"
    /\ Len(arg.issues.items) >= 2
    /\ arg.issues.items[1].severity = "low"
    /\ arg.issues.items[2].severity = "critical"
    /\ Len(BucketHeaders(out)) = 2

----------------------------------------------------------------------------
(* C7: progress lines follow the arrival order *)

ToolCalls(content) == SelectSeq(content, LAMBDA b : b.hasName /\ b.hasInput)

\* the tool invocations of the events, in stream order and block order
RECURSIVE Invocations(_)
Invocations(events) ==
    IF events = << >> THEN << >>
    ELSE (IF Head(events).type = "assistant" THEN ToolCalls(Head(events).content)
          ELSE << >>)
         \o Invocations(Tail(events))

\* C7: the progress lines emitted so far are, one for one and in the same
\* order, the tool invocations of the events consumed so far.
C7_ProgressLinesInArrivalOrder ==
    LET calls == Invocations(consumed)
        lines == ProgressLines(out)
    IN  /\ Len(lines) = Len(calls)
        /\ \A k \in 1..Len(calls) :
              IF calls[k].name = "Task"
              THEN lines[k].kind = "delegate"
              ELSE /\ lines[k].kind = "tool"
                   /\ lines[k].text = calls[k].name \o ": " \o getToolSummary(calls[k])

\* two events with three invocations between them, of different tools
C7_Witness ==
    /\ Len(consumed) = 2
    /\ consumed[1].type = "assistant"
    /\ consumed[1].content = << TaskBlock, ReadBlock >>
    /\ consumed[2].type = "assistant"
    /\ consumed[2].content = << ReadBlock, TextBlock >>
    /\ Len(ProgressLines(out)) = 3

----------------------------------------------------------------------------
(* C8: the report is rendered after the stream *)

\* C8 as stated: report lines appear only once the stream is drained, and
\* when the session is over, its stream ended or failed, the report is
\* rendered if and only if a result was recorded.
C8_RenderedIffRecorded ==
    /\ ReportStarted => pc \in { "resolved", "rejected", "done" }
    /\ (pc = "done" /\ stream \in { "ended", "failed" }) =>
          (Rendered <=> result # NoResult)

\* C8, amended: report lines appear only after the stream has ended without
\* an error, after every line of the session; and the renderer is run, on
\* the recorded result, if and only if the stream ended without an error
\* and a validated result was recorded.
C8_RenderedIffDrainedAndRecorded ==
    /\ ReportStarted => (pc \in { "resolved", "rejected", "done" } /\ stream = "ended")
    /\ pc \in { "resolved", "rejected", "done" } =>
          (ReportStarted <=> (stream = "ended" /\ result # NoResult /\ HasReviewShape(result)))
    /\ \A i, j \in 1..Len(out) : (i < j /\ IsReportLine(out[i])) => IsReportLine(out[j])
    /\ ReportStarted => ReportLines(out) = printResults(result)

\* a tool event, then a successful terminal event, then the report
C8_Witness ==
    /\ pc = "done"
    /\ Rendered
    /\ Len(consumed) = 2
    /\ consumed[1].type = "assistant"
    /\ consumed[1].content # << >>
    /\ IsSuccessTerminal(consumed[2])

----------------------------------------------------------------------------
(* C9: directory validation fails *)

\* C9: when the path is missing or is not a directory, no session is ever
\* opened, no line is printed on standard output, and the run ends with
\* exit code 1.
C9_DirectoryErrorBeforeSession ==
    dir \in { "missing", "file" } =>
        /\ sessions = 0
        /\ out = << >>
        /\ consumed = << >>
        /\ pc \in { "start", "done" }
        /\ pc = "done" => (exitCode = 1 /\ Len(err) = 1)

\* the path named a file and the run has ended
C9_Witness ==
    /\ dir = "file"
    /\ pc = "done"
    /\ exitCode = 1

----------------------------------------------------------------------------
(* C10: the session fails *)

\* C10: when the session cannot be opened or its stream fails, also after
\* a result was recorded, the run ends with a non-zero exit code, no report
\* is rendered and no second session is opened.
C10_SessionErrorIsFatal ==
    /\ sessions <= 1
    /\ stream = "failed" =>
          /\ pc \in { "rejected", "done" }
          /\ ~ReportStarted
          /\ pc = "rejected" => (exitCode = -1 /\ err = << >>)
          /\ pc = "done" => (exitCode > 0 /\ Len(err) = 1)

\* the stream failed after a successful terminal event had recorded a result
C10_Witness ==
    /\ pc = "done"
    /\ stream = "failed"
    /\ consumed # << >>
    /\ IsSuccessTerminal(Last(consumed))
    /\ result = Last(consumed).structured_output

----------------------------------------------------------------------------
(* C11: the stream ends without a terminal event *)

\* C11: when the stream has ended and no terminal event arrived, no result
\* is recorded, no report line is printed, nothing is written to standard
\* error and the run ends with exit code 0.
C11_NoTerminalEventIsNotAFailure ==
    (stream = "ended" /\ Terminals(consumed) = << >>) =>
        /\ result = NoResult
        /\ ~ReportStarted
        /\ err = << >>
        /\ pc = "done" => exitCode = 0
        /\ pc \in { "returned", "resolved", "done" }

\* two events, none of them terminal, one with a tool call; the run is over
C11_Witness ==
    /\ pc = "done"
    /\ stream = "ended"
    /\ Len(consumed) = MaxEvents
    /\ Terminals(consumed) = << >>
    /\ ProgressLines(out) # << >>

----------------------------------------------------------------------------
(* C12: success status with a valid payload *)

\* the k-th decimal digit, from the right, of a natural number
DigitAt(n, k) == ToString((n \div (10 ^ k)) % 10)

\* a cost of e4 ten-thousandths of a dollar written with four decimals
FourDecimals(e4) ==
    ToString(e4 \div 10000) \o "." \o DigitAt(e4, 3) \o DigitAt(e4, 2)
        \o DigitAt(e4, 1) \o DigitAt(e4, 0)

\* the success line stated for a terminal event: the cost the event reports,
\* zero when it reports none, with four decimals
SuccessLine(m) ==
    Line("success",
         "Review complete! Cost: $"
            \o (IF m.total_cost_usd.t = "number" THEN FourDecimals(m.total_cost_usd.e4)
                ELSE "0.0000"),
         "", 0)

IsSuccessLine(l) == l.kind = "success"

----------------------------------------------------------------------------
(* C13: the summary of a tool call *)

\* a field of the input that is not there (undefined) or holds null
Absent(v) == v.t = "undefined" \/ v.t = "null"

\* the text a field is printed as
FieldText(v) == IF v.t = "number" THEN ToString(v.num) ELSE v.str

\* the summary C13 states for a tool call
StatedSummary(b) ==
    IF b.name = "Read"
    THEN (IF Absent(b.input.file_path) THEN "file" ELSE FieldText(b.input.file_path))
    ELSE IF b.name = "Glob"
    THEN (IF Absent(b.input.pattern) THEN "pattern" ELSE FieldText(b.input.pattern))
    ELSE IF b.name = "Grep"
    THEN "\"" \o (IF Absent(b.input.pattern) THEN "" ELSE FieldText(b.input.pattern))
              \o "\" in "
              \o (IF Absent(b.input.path) THEN "." ELSE FieldText(b.input.path))
    ELSE ""

IsToolCall(b) == b.hasName /\ b.hasInput

\* the last consumed event is an assistant event with the single block it returns
LastIsSingleBlock ==
    /\ consumed # << >>
    /\ Last(consumed).type = "assistant"
    /\ Len(Last(consumed).content) = 1

\* C13: for a tool call that is no delegation the line printed carries the
\* tool name and the stated summary: the file_path or "file" for Read, the
\* pattern or "pattern" for Glob, the quoted pattern, " in " and the path or
\* "." for Grep, and nothing for any other tool.
C13_ToolSummaryAsStated ==
    (LastIsSingleBlock /\ IsToolCall(Last(consumed).content[1])
        /\ Last(consumed).content[1].name # "Task") =>
        LET b == Last(consumed).content[1]
        IN  Last(out) = Line("tool", b.name \o ": " \o StatedSummary(b), "", 0)

\* a Grep call with a pattern and no path was summarised
C13_Witness ==
    /\ LastIsSingleBlock
    /\ Last(consumed).content[1].name = "Grep"
    /\ Last(consumed).content[1].input.pattern = PStr("TODO")
    /\ Last(consumed).content[1].input.path = PUndefined
    /\ Last(out).text = "Grep: \"TODO\" in ."

----------------------------------------------------------------------------
(* C14: delegation lines and tool lines *)

\* C14: a tool call named Task appends exactly one delegation line naming
\* its subagent_type, or "unknown" when that is absent; a tool call with
\* any other name appends exactly one tool line; neither appends both.
C14_OneLinePerToolCall ==
    [][ (consumed' # consumed
           /\ Last(consumed').type = "assistant"
           /\ Len(Last(consumed').content) = 1
           /\ IsToolCall(Last(consumed').content[1])) =>
          LET b == Last(consumed').content[1]
          IN  /\ Len(out') = Len(out) + 1
              /\ SubSeq(out', 1, Len(out)) = out
              /\ IF b.name = "Task"
                 THEN Last(out') =
                        Line("delegate",
                             "Delegating to: "
                               \o (IF Absent(b.input.subagent_type) THEN "unknown"
                                   ELSE FieldText(b.input.subagent_type)),
                             "", 0)
                 ELSE Last(out').kind = "tool"
      ]_vars

\* a delegation without subagent_type was logged as "unknown"
C14_Witness ==
    /\ LastIsSingleBlock
    /\ Last(consumed).content[1].name = "Task"
    /\ IsToolCall(Last(consumed).content[1])
    /\ Last(consumed).content[1].input.subagent_type = PUndefined
    /\ Last(out).text = "Delegating to: unknown"

----------------------------------------------------------------------------
(* C15: the location of an issue *)

\* the "[category] location" lines of the report, in order
IssueEntries(lines) == SelectSeq(lines, LAMBDA l : l.kind = "issue")

\* the issues the report lists: bucket after bucket, in the order of `issues`
Listed(issues) ==
    filterBySeverity(issues, "critical") \o filterBySeverity(issues, "high")
        \o filterBySeverity(issues, "medium") \o filterBySeverity(issues, "low")

\* C15: every issue of a rendered result shows `file` alone when it has no
\* line and `file:line` when it has one, whatever number the line is.
C15_LocationShowsEveryLine ==
    pc = "printed" =>
        LET listed == Listed(arg.issues.items)
            entries == IssueEntries(out)
        IN  /\ Len(entries) = Len(listed)
            /\ \A k \in 1..Len(listed) :
                  entries[k].text =
                      "[" \o listed[k].category \o "] "
                          \o (IF listed[k].line.t = "undefined"
                              THEN listed[k].file
                              ELSE listed[k].file \o ":" \o ToString(listed[k].line.num))

----------------------------------------------------------------------------
(* C17: what the slot can hold *)

\* C17: the slot is unset, or it holds a value that passes the validator
\* and is the payload of a terminal event with status success that was
\* already consumed.
C17_SlotHoldsAValidatedSuccessPayload ==
    \/ result = NoResult
    \/ /\ HasReviewShape(result)
       /\ \E k \in 1..Len(consumed) :
             /\ consumed[k].type = "result"
             /\ consumed[k].subtype = "success"
             /\ consumed[k].structured_output = result

\* a failed terminal event with a valid payload came after the success
\* that filled the slot, and the slot still holds the first payload
C17_Witness ==
    /\ Len(consumed) = 2
    /\ IsSuccessTerminal(consumed[1])
    /\ consumed[2].type = "result"
    /\ consumed[2].subtype = "error_max_turns"
    /\ HasReviewShape(consumed[2].structured_output)
    /\ consumed[2].structured_output # consumed[1].structured_output
    /\ result = consumed[1].structured_output

----------------------------------------------------------------------------
(* C18: the counts of the report *)

RECURSIVE SumN(_)
SumN(lines) == IF lines = << >> THEN 0 ELSE Head(lines).n + SumN(Tail(lines))

\* C18: the total of the "Issues Found" line equals the sum of the counts
\* of the bucket headers, which equals the number of issue entries.
C18_TotalEqualsBucketCounts ==
    pc = "printed" =>
        LET total == SelectSeq(out, LAMBDA l : l.kind = "count")
        IN  /\ Len(total) = 1
            /\ total[1].n = SumN(BucketHeaders(out))
            /\ SumN(BucketHeaders(out)) = Len(IssueEntries(out))

----------------------------------------------------------------------------
(* C19: outcome lines *)

OutcomeLines(lines) == SelectSeq(lines, LAMBDA l : l.kind \in { "success", "failure" })

SubtypeLine(message) ==
    Line("failure", "Review failed: " \o message.subtype, message.subtype, 0)

----------------------------------------------------------------------------
(* C20: what other events and other blocks leave alone *)

\* C20: an event that is neither an assistant nor a result event prints
\* nothing and leaves the slot unchanged; an assistant event leaves the slot
\* unchanged and prints one line per block that has both a name and an
\* input, none for a block that lacks either.
C20_OtherEventsAndBlocksChangeNothing ==
    [][ consumed' # consumed =>
          LET m == Last(consumed')
          IN  /\ m.type \notin { "assistant", "result" } =>
                    (out' = out /\ result' = result)
              /\ m.type = "assistant" =>
                    /\ result' = result
                    /\ Len(out') = Len(out) + Len(ToolCalls(m.content))
                    /\ SubSeq(out', 1, Len(out)) = out
                    /\ (\A k \in 1..Len(m.content) :
                            ~(m.content[k].hasName /\ m.content[k].hasInput))
                          => out' = out
      ]_vars

\* a result was recorded, then an event whose block has a name and no input
\* arrived: nothing was printed for it and the slot kept the result
C20_Witness ==
    /\ Len(consumed) = 2
    /\ IsSuccessTerminal(consumed[1])
    /\ consumed[2].type = "assistant"
    /\ Len(consumed[2].content) = 1
    /\ consumed[2].content[1].hasName
    /\ ~consumed[2].content[1].hasInput
    /\ result = consumed[1].structured_output
    /\ Last(out) = SuccessLine(consumed[1])

----------------------------------------------------------------------------
(* C16: the run ends *)

====
